---- MODULE Spec2Model ----
(***************************************************************************)
(* A model of vault-k8s-helper: one process run of main() (src/main.rs),   *)
(* with the lease path validation and EKS token minting of src/aws.rs and  *)
(* the two GCP token constructions of src/gcp.rs.                          *)
(*                                                                         *)
(* Text is a sequence of one-character strings, so that splitting,         *)
(* lower-casing, integer parsing and base64 are computed and not assumed.  *)
(* A 64-bit magnitude is a sequence of five base-10000 limbs, most         *)
(* significant first, because TLC's integers are narrower than i64.  An    *)
(* instant is a number of clock ticks since the process started; the       *)
(* process starts StartEpoch seconds after 1970.                           *)
(***************************************************************************)
EXTENDS Integers, Sequences, FiniteSets, TLC

VARIABLES
    args,            \* the command line: type, path, eks_cluster (clap ArgMatches)
    pc,              \* position of main()
    outcome,         \* "running", "ok", or the error / panic that ended the run
    failedAt,        \* the step whose failure ended the run, or "none"
    credential_type, \* CredentialType selected by main, or "none"
    output,          \* the --output value read by main
    events,          \* the pipeline steps executed so far, in order
    vaultRequests,   \* requests sent to the secret backend, in order
    sdkCalls,        \* calls into the cloud SDK auth flow, in order
    presignCalls,    \* calls of the presigning primitive, in order
    eksArgs,         \* the region / expiry strings handed to get_eks_token
    warnings,        \* warn!() lines emitted
    clock,           \* the wall clock, in ticks since the process started
    nowReads,        \* the values Utc::now() returned, in order
    lease,           \* the AWS lease the backend returned, or None
    aws_credentials, \* the AwsCredentials derived from the lease, or None
    token,           \* the EksCredential minted, or None
    wire,            \* the epoch number the backend delivered (GKE), or None
    sdkToken,        \* the gcp_auth::Token obtained (GCP), or None
    gcp_access_token,\* the GcpAccessToken built (GKE or GCP), or None
    creds,           \* the serialized JSON document, or None
    sink,            \* "untouched", "stdout" or "created" (file created/truncated)
    sinkContent      \* what has been written to the sink: None, the document,
                     \* or the document marked as cut short

vars == <<args, pc, outcome, failedAt, credential_type, output, events,
          vaultRequests, sdkCalls, presignCalls, eksArgs, warnings, clock,
          nowReads, lease, aws_credentials, token, wire, sdkToken,
          gcp_access_token, creds, sink, sinkContent>>

\* Option<T>: None is the empty tuple, Some(x) the tuple of x alone.
None == <<>>
Some(x) == <<x>>

\* ------------------------------------------------------------- bounds
\* Longest path, in segments, that the command line carries.
MaxSegs == 4
\* Longest presigned URL, in bytes, that the presigning primitive returns.
MaxUrlLen == 3
\* Clock ticks per second.
TicksPerSec == 2
\* Most ticks the clock advances between two readings.
MaxElapsed == 1
\* Seconds since 1970-01-01T00:00:00Z at which the process starts.
StartEpoch == 1700000000

\* ------------------------------------------------------------- constants
\* gcp.rs: Duration::minutes(50)
DefaultExpiryMinutes == 50
\* aws.rs: duration.as_secs() < 60
CompatExpirySecs == 60

\* ------------------------------------------------------------- text
RECURSIVE SeqsUpTo(_, _)
SeqsUpTo(S, n) ==
    IF n = 0 THEN {<<>>}
    ELSE LET shorter == SeqsUpTo(S, n - 1)
         IN  shorter \cup {Append(s, x) : s \in {t \in shorter : Len(t) = n - 1}, x \in S}

UpperCase == <<"A","B","C","D","E","F","G","H","I","J","K","L","M",
               "N","O","P","Q","R","S","T","U","V","W","X","Y","Z">>
LowerCase == <<"a","b","c","d","e","f","g","h","i","j","k","l","m",
               "n","o","p","q","r","s","t","u","v","w","x","y","z">>

IndexIn(c, alphabet) ==
    IF \E i \in 1..Len(alphabet) : alphabet[i] = c
    THEN CHOOSE i \in 1..Len(alphabet) : alphabet[i] = c
    ELSE 0

\* str::to_lowercase, on the characters the model uses.
to_lowercase(s) ==
    [i \in 1..Len(s) |->
        IF IndexIn(s[i], UpperCase) > 0 THEN LowerCase[IndexIn(s[i], UpperCase)] ELSE s[i]]

\* ------------------------------------------------------------- main.rs: CredentialType
gke == <<"g","k","e">>
eks == <<"e","k","s">>
gcp == <<"g","c","p">>

CRED_VARIANTS == {gke, eks, gcp}

\* CredentialType::from_str: the variant, or the error InvalidCredentialType.
from_str(s) ==
    LET l == to_lowercase(s)
    IN  IF l = gke THEN "Gke"
        ELSE IF l = eks THEN "Eks"
        ELSE IF l = gcp THEN "Gcp"
        ELSE "InvalidCredentialType"

\* ------------------------------------------------------------- aws.rs: lease path
creds_literal == <<"c","r","e","d","s">>

\* str::split('/'): the segments between the separators; "" gives one empty segment.
RECURSIVE split(_)
split(s) ==
    IF \A i \in 1..Len(s) : s[i] # "/" THEN <<s>>
    ELSE LET k == CHOOSE i \in 1..Len(s) : s[i] = "/" /\ \A j \in 1..(i - 1) : s[j] # "/"
         IN  <<SubSeq(s, 1, k - 1)>> \o split(SubSeq(s, k + 1, Len(s)))

\* The two checks at the head of read_aws_credentials.
PathValid(path) ==
    LET path_parts == split(path)
    IN  /\ Len(path_parts) = 3
        /\ path_parts[2] = creds_literal

mount_point(path) == split(path)[1]
role(path) == split(path)[3]

\* ------------------------------------------------------------- aws.rs: region, expiry
Digits == <<"0","1","2","3","4","5","6","7","8","9">>

\* u64::MAX, in decimal digits.
U64MaxDigits == <<1,8,4,4,6,7,4,4,0,7,3,7,0,9,5,5,1,6,1,5>>

RECURSIVE StripZeros(_)
StripZeros(d) ==
    IF Len(d) > 1 /\ d[1] = 0 THEN StripZeros(Tail(d)) ELSE d

\* a < b or a = b, for digit or limb sequences of one length.
RECURSIVE LexLe(_, _)
LexLe(a, b) ==
    IF Len(a) = 0 THEN TRUE
    ELSE IF a[1] # b[1] THEN a[1] < b[1]
    ELSE LexLe(Tail(a), Tail(b))

\* str::parse::<u64>: an optional '+', then decimal digits that fit 64 bits.
\* The value is its decimal digits without leading zeros.
ParseU64(s) ==
    LET body == IF Len(s) > 0 /\ s[1] = "+" THEN Tail(s) ELSE s
        isDigits == \A i \in 1..Len(body) : IndexIn(body[i], Digits) > 0
        value == StripZeros([i \in 1..Len(body) |-> IndexIn(body[i], Digits) - 1])
        fits == \/ Len(value) < Len(U64MaxDigits)
                \/ Len(value) = Len(U64MaxDigits) /\ LexLe(value, U64MaxDigits)
    IN  IF Len(body) = 0 \/ ~isDigits \/ ~fits
        THEN [ok |-> FALSE, secs |-> <<>>]
        ELSE [ok |-> TRUE, secs |-> value]

\* Duration::as_secs() < n, for n below 100.
SecsBelow(secs, n) ==
    \/ Len(secs) = 1 /\ secs[1] < n
    \/ Len(secs) = 2 /\ secs[1] * 10 + secs[2] < n

\* Region names rusoto's Region::from_str knows, among those the model uses.
KnownRegions == {"us-east-1", "ap-southeast-1"}

ParseRegion(r) == [ok |-> r \in KnownRegions, region |-> r]

WARN_15_MINUTES == "sts GetCallerIdentity request is valid for 15 minutes"
WARN_60_SECONDS == "expiry less than 60 seconds"

\* The warn!() lines of generate_presigned_url for a parsed expiry.
ExpiryWarnings(expiry) ==
    IF expiry = None THEN <<>>
    ELSE IF SecsBelow(expiry[1], CompatExpirySecs)
         THEN <<WARN_15_MINUTES, WARN_60_SECONDS>>
         ELSE <<WARN_15_MINUTES>>

PresignInputsRejectShort(cluster, region, expires_in) ==
    LET r == IF region = None THEN [ok |-> TRUE] ELSE ParseRegion(region[1])
        e == IF expires_in = None THEN [ok |-> TRUE] ELSE ParseU64(expires_in[1])
    IN  IF ~r.ok THEN [ok |-> FALSE, error |-> "InvalidAwsRegion"]
        ELSE IF ~e.ok THEN [ok |-> FALSE, error |-> "ParseIntError"]
        ELSE IF expires_in # None /\ SecsBelow(e.secs, CompatExpirySecs)
             THEN [ok |-> FALSE, error |-> "ParseIntError"]
        ELSE [ok |-> TRUE,
              region |-> IF region = None THEN None ELSE Some(r.region),
              expiry |-> IF expires_in = None THEN None ELSE Some(e.secs),
              headers |-> {<<"x-k8s-aws-id", cluster>>}]

PresignInputsExpiryFirst(cluster, region, expires_in) ==
    LET r == IF region = None THEN [ok |-> TRUE] ELSE ParseRegion(region[1])
        e == IF expires_in = None THEN [ok |-> TRUE] ELSE ParseU64(expires_in[1])
    IN  IF ~e.ok THEN [ok |-> FALSE, error |-> "ParseIntError"]
        ELSE IF ~r.ok THEN [ok |-> FALSE, error |-> "InvalidAwsRegion"]
        ELSE [ok |-> TRUE,
              region |-> IF region = None THEN None ELSE Some(r.region),
              expiry |-> IF expires_in = None THEN None ELSE Some(e.secs),
              headers |-> {<<"x-k8s-aws-id", cluster>>}]

\* generate_presigned_url up to the call of the presigning primitive:
\* the error, or the arguments the primitive is called with.
PresignInputs(cluster, region, expires_in) ==
    LET r == IF region = None THEN [ok |-> TRUE] ELSE ParseRegion(region[1])
        e == IF expires_in = None THEN [ok |-> TRUE] ELSE ParseU64(expires_in[1])
    IN  IF ~r.ok THEN [ok |-> FALSE, error |-> "InvalidAwsRegion"]
        ELSE IF ~e.ok THEN [ok |-> FALSE, error |-> "ParseIntError"]
        ELSE [ok |-> TRUE,
              region |-> IF region = None THEN None ELSE Some(r.region),
              expiry |-> IF expires_in = None THEN None ELSE Some(e.secs),
              headers |-> {<<"x-k8s-aws-id", cluster>>}]

\* ------------------------------------------------------------- aws.rs: token
\* base64::URL_SAFE alphabet.
UrlSafeAlphabet == UpperCase \o LowerCase \o Digits \o <<"-", "_">>

TokenPrefix == <<"k","8","s","-","a","w","s","-","v","1",".">>

\* The base64 characters of up to three bytes; no padding is added.
EncodeChunk(b) ==
    LET b1 == b[1]
        b2 == IF Len(b) >= 2 THEN b[2] ELSE 0
        b3 == IF Len(b) >= 3 THEN b[3] ELSE 0
        c1 == b1 \div 4
        c2 == (b1 % 4) * 16 + b2 \div 16
        c3 == (b2 % 16) * 4 + b3 \div 64
        c4 == b3 % 64
        all == <<UrlSafeAlphabet[c1 + 1], UrlSafeAlphabet[c2 + 1],
                 UrlSafeAlphabet[c3 + 1], UrlSafeAlphabet[c4 + 1]>>
    IN  SubSeq(all, 1, Len(b) + 1)

RECURSIVE EncodePadded(_)
EncodePadded(bytes) ==
    IF Len(bytes) = 0 THEN <<>>
    ELSE IF Len(bytes) <= 3
         THEN EncodeChunk(bytes) \o [i \in 1..(3 - Len(bytes)) |-> "="]
         ELSE EncodeChunk(SubSeq(bytes, 1, 3)) \o EncodePadded(SubSeq(bytes, 4, Len(bytes)))

\* base64::encode_config(bytes, URL_SAFE_NO_PAD).
RECURSIVE encode_config(_)
encode_config(bytes) ==
    IF Len(bytes) = 0 THEN <<>>
    ELSE IF Len(bytes) <= 3 THEN EncodeChunk(bytes)
    ELSE EncodeChunk(SubSeq(bytes, 1, 3)) \o encode_config(SubSeq(bytes, 4, Len(bytes)))

\* get_eks_token after generate_presigned_url returned url.
EksCredential(url) ==
    [kind |-> "ExecCredential",
     api_version |-> "client.authentication.k8s.io/v1alpha1",
     spec |-> {},
     status |-> [token |-> TokenPrefix \o encode_config(url)]]

\* ------------------------------------------------------------- gcp.rs: time
\* The civil date of a day number counted from 1970-01-01 (proleptic Gregorian),
\* as chrono's NaiveDate gives it.
CivilFromDays(days) ==
    LET z == days + 719468
        era == z \div 146097
        doe == z - era * 146097
        yoe == (doe - doe \div 1460 + doe \div 36524 - doe \div 146096) \div 365
        doy == doe - (365 * yoe + yoe \div 4 - yoe \div 100)
        mp == (5 * doy + 2) \div 153
        d == doy - (153 * mp + 2) \div 5 + 1
        m == IF mp < 10 THEN mp + 3 ELSE mp - 9
        y == yoe + era * 400 + (IF m <= 2 THEN 1 ELSE 0)
    IN  [year |-> y, month |-> m, day |-> d]

\* DateTime::<Utc>::to_rfc3339_opts(SecondsFormat::Secs, true): the fields of
\* "YYYY-MM-DDTHH:MM:SSZ" for a day number and a second of that day.
to_rfc3339_opts(days, sod) ==
    LET date == CivilFromDays(days)
    IN  [year |-> date.year, month |-> date.month, day |-> date.day,
         hour |-> sod \div 3600, minute |-> (sod % 3600) \div 60, second |-> sod % 60,
         offset |-> "Z"]

\* i64::MAX and u64::MAX, in base-10000 limbs.
I64MaxLimbs == <<922, 3372, 368, 5477, 5807>>
U64MaxLimbs == <<1844, 6744, 737, 955, 1615>>
\* Magnitudes of the last and the first second chrono's NaiveDateTime holds
\* (+262142-12-31T23:59:59 = 8210266876799 and -262143-01-01T00:00:00 =
\* -8334601228800; chrono 0.4 releases with NaiveDate::MIN / MAX at these years).
ChronoMaxLimbs == <<0, 8, 2102, 6687, 6799>>
ChronoMinLimbs == <<0, 8, 3346, 122, 8800>>

\* Quotient and remainder of a magnitude by 86400, by long division on its limbs.
RECURSIVE DivMod86400(_, _, _)
DivMod86400(limbs, q, r) ==
    IF Len(limbs) = 0 THEN [q |-> q, r |-> r]
    ELSE LET cur == r * 10000 + limbs[1]
         IN  DivMod86400(Tail(limbs), q * 10000 + cur \div 86400, cur % 86400)

\* A number below 2^31, in base-10000 limbs.
ToLimbs(n) ==
    <<0, 0, n \div 100000000, (n \div 10000) % 10000, n % 10000>>

\* a + b on limbs, with the carry into the least significant limb.
RECURSIVE LimbAdd(_, _, _)
LimbAdd(a, b, carry) ==
    IF Len(a) = 0 THEN <<>>
    ELSE LET n == Len(a)
             t == a[n] + b[n] + carry
         IN  Append(LimbAdd(SubSeq(a, 1, n - 1), SubSeq(b, 1, n - 1), t \div 10000),
                    t % 10000)

\* a - b on limbs, for a >= b, with the borrow from the least significant limb.
RECURSIVE LimbSub(_, _, _)
LimbSub(a, b, borrow) ==
    IF Len(a) = 0 THEN <<>>
    ELSE LET n == Len(a)
             t == a[n] - b[n] - borrow
         IN  Append(LimbSub(SubSeq(a, 1, n - 1), SubSeq(b, 1, n - 1),
                            IF t < 0 THEN 1 ELSE 0),
                    (t + 10000) % 10000)

\* `x as i64` of a u64: the value itself up to i64::MAX, and x - 2^64 above it.
AsI64(mag) ==
    IF LexLe(mag, I64MaxLimbs) THEN [neg |-> FALSE, mag |-> mag]
    ELSE [neg |-> TRUE,
          mag |-> LimbAdd(LimbSub(U64MaxLimbs, mag, 0), ToLimbs(1), 0)]

\* i64::MAX / 1000: the most seconds, of either sign, chrono::Duration::seconds takes.
DurationMaxSecsLimbs == <<0, 9223, 3720, 3685, 4775>>

\* Duration::seconds(s): the duration, or a panic when it is out of bounds.
DurationSeconds(s) == [ok |-> LexLe(s.mag, DurationMaxSecsLimbs), secs |-> s]

\* DateTime<Utc> + Duration, for a DateTime `now` ticks after the process started
\* and a Duration of whole seconds: the seconds since 1970 of the sum with its
\* ticks within the second, or a panic when the sum leaves chrono's range.
AddDuration(now, d) ==
    LET nowSecs == ToLimbs(StartEpoch + now \div TicksPerSec)
        sum == IF ~d.neg
               THEN [neg |-> FALSE, mag |-> LimbAdd(nowSecs, d.mag, 0)]
               ELSE IF LexLe(d.mag, nowSecs)
                    THEN [neg |-> FALSE, mag |-> LimbSub(nowSecs, d.mag, 0)]
                    ELSE [neg |-> TRUE, mag |-> LimbSub(d.mag, nowSecs, 0)]
    IN  IF ~LexLe(sum.mag, IF sum.neg THEN ChronoMinLimbs ELSE ChronoMaxLimbs)
        THEN [ok |-> FALSE]
        ELSE [ok |-> TRUE, secs |-> sum, ticks |-> now % TicksPerSec]

\* The expiry read_aws_credentials gives the credentials:
\* Utc::now() + Duration::seconds(lease_duration as i64) when the lease carries a
\* security_token, None otherwise; either step of the sum can panic.
AwsExpiry(security_token, lease_duration, now) ==
    IF security_token = None THEN [status |-> "ok", expiry |-> None]
    ELSE LET d == DurationSeconds(AsI64(lease_duration))
         IN  IF ~d.ok THEN [status |-> "panic", expiry |-> None]
             ELSE LET sum == AddDuration(now, d.secs)
                  IN  IF ~sum.ok THEN [status |-> "panic", expiry |-> None]
                      ELSE [status |-> "ok",
                            expiry |-> Some([secs |-> sum.secs, ticks |-> sum.ticks])]

\* NaiveDateTime::from_timestamp(timestamp, 0): the day number and second of the
\* day (floor division), or a panic when the date is out of chrono's range.
from_timestamp(neg, mag) ==
    IF ~LexLe(mag, IF neg THEN ChronoMinLimbs ELSE ChronoMaxLimbs)
    THEN [ok |-> FALSE]
    ELSE LET dm == DivMod86400(mag, 0, 0)
         IN  IF ~neg THEN [ok |-> TRUE, days |-> dm.q, sod |-> dm.r]
             ELSE IF dm.r = 0 THEN [ok |-> TRUE, days |-> -dm.q, sod |-> 0]
             ELSE [ok |-> TRUE, days |-> -dm.q - 1, sod |-> 86400 - dm.r]

\* TimestampVisitor: visit_i64 takes any value; visit_u64 takes those up to i64::MAX.
Visit(w) ==
    IF w.kind = "u64" /\ ~LexLe(w.mag, I64MaxLimbs)
    THEN [ok |-> FALSE]
    ELSE [ok |-> TRUE, neg |-> w.neg, mag |-> w.mag]

\* timestamp_to_iso: the expiry, a decode error, or a panic.
timestamp_to_iso(w) ==
    LET timestamp == Visit(w)
    IN  IF ~timestamp.ok THEN [status |-> "decode_error", expiry |-> None]
        ELSE LET dt == from_timestamp(timestamp.neg, timestamp.mag)
             IN  IF ~dt.ok THEN [status |-> "panic", expiry |-> None]
                 ELSE [status |-> "ok", expiry |-> Some(to_rfc3339_opts(dt.days, dt.sod))]

\* The rendering of an instant of the process clock.
Rfc3339At(instant) ==
    LET secs == StartEpoch + instant \div TicksPerSec
    IN  to_rfc3339_opts(secs \div 86400, secs % 86400)

\* Duration::num_seconds: whole seconds, truncated toward zero.
num_seconds(d) == IF d >= 0 THEN d \div TicksPerSec ELSE -((-d) \div TicksPerSec)

Abs(x) == IF x >= 0 THEN x ELSE -x

\* GcpAccessToken::from_gcp_auth, with the two readings of Utc::now() it makes.
from_gcp_auth(t, now1, now2) ==
    LET expiry == IF t.expires_at # None THEN t.expires_at[1]
                  ELSE now1 + DefaultExpiryMinutes * 60 * TicksPerSec
    IN  [token |-> t.token,
         expiry |-> Rfc3339At(expiry),
         token_ttl |-> Abs(num_seconds(expiry - now2))]

\* ------------------------------------------------------------- serde
\* serde_json::to_string_pretty of a GcpAccessToken: expiry is renamed, token_ttl skipped.
SerializeGcp(t) == [token_expiry |-> t.expiry, token |-> t.token]

\* serde_json::to_string_pretty of an EksCredential.
SerializeEks(c) ==
    [kind |-> c.kind, apiVersion |-> c.api_version, spec |-> c.spec,
     status |-> [token |-> c.status.token]]

\* ------------------------------------------------------------- inputs
Opt(S) == {None} \cup {Some(x) : x \in S}

TypeTokens == {gke, eks, gcp, <<"E","K","S">>, <<"G","k","e">>, <<"f","o","o">>}

Segments == {<<>>, creds_literal, <<"a","w","s">>}

RECURSIVE Join(_)
Join(segs) ==
    IF Len(segs) = 1 THEN segs[1] ELSE segs[1] \o <<"/">> \o Join(Tail(segs))

Paths == {Join(segs) : segs \in SeqsUpTo(Segments, MaxSegs) \ {<<>>}}

Clusters == {"test"}
Outputs == {"-", "out.json"}
RegionNames == {"us-east-1", "mars-1"}
ExpiryStrings == {<<"0">>, <<"5","9">>, <<"6","0">>, <<"9","0","0">>, <<"+","5">>,
                  <<>>, <<"-","1">>, <<"1",".","5">>, <<"a">>, <<"+">>,
                  \* u64::MAX + 1
                  <<"1","8","4","4","6","7","4","4","0","7",
                    "3","7","0","9","5","5","1","6","1","6">>}

\* Bytes of a presigned URL: 'h', '?', '~'.
UrlBytes == {104, 63, 126}
Urls == SeqsUpTo(UrlBytes, MaxUrlLen)

\* Lease durations (u64 seconds) the backend returns: a short one, the first
\* that takes the expiry of a process started at StartEpoch out of chrono's
\* range, the bounds of Duration::seconds, of i64 and of u64.
LeaseDurations ==
    {ToLimbs(900),
     LimbAdd(LimbSub(ChronoMaxLimbs, ToLimbs(StartEpoch), 0), ToLimbs(1), 0),
     DurationMaxSecsLimbs, LimbAdd(DurationMaxSecsLimbs, ToLimbs(1), 0),
     I64MaxLimbs, LimbAdd(I64MaxLimbs, ToLimbs(1), 0), U64MaxLimbs}

\* Without a security_token the duration is not used: fewer of them are drawn.
Leases ==
    {l \in [access_key : {"AKIA"}, secret_key : {"secret"},
            security_token : Opt({"tok"}), lease_duration : LeaseDurations] :
        l.security_token = None =>
            l.lease_duration \in {ToLimbs(900), LimbAdd(I64MaxLimbs, ToLimbs(1), 0)}}

\* Epoch numbers the backend delivers, as the deserializer sees them.
Magnitudes == {<<0, 0, 0, 0, 0>>, <<0, 0, 0, 0, 1>>, <<0, 0, 0, 8, 6399>>,
               <<0, 0, 0, 8, 6400>>, <<0, 0, 9, 5178, 2400>>, <<0, 0, 17, 0, 0>>,
               <<0, 0, 41, 244, 4800>>, ChronoMaxLimbs, <<0, 8, 2102, 6687, 6800>>,
               ChronoMinLimbs, <<0, 8, 3346, 122, 8801>>,
               I64MaxLimbs, <<922, 3372, 368, 5477, 5808>>, U64MaxLimbs}

WireEpochs ==
    {[kind |-> "u64", neg |-> FALSE, mag |-> m] : m \in Magnitudes}
    \cup {[kind |-> "i64", neg |-> n, mag |-> m] :
            n \in BOOLEAN, m \in {x \in Magnitudes : LexLe(x, I64MaxLimbs)} \ {<<0, 0, 0, 0, 0>>}}
    \cup {[kind |-> "i64", neg |-> FALSE, mag |-> <<0, 0, 0, 0, 0>>]}

\* Offsets, in ticks from the clock, of the expiry an SDK token carries.
ExpiryOffsets == {-(TicksPerSec + 1), 0, 1, 3600 * TicksPerSec}

\* ------------------------------------------------------------- main.rs: the run
\* clap: "type" is required and one of CRED_VARIANTS; "path" is required for gke
\* and eks, "eks_cluster" for eks.
ClapAccepts(a) ==
    /\ a.type # None
    /\ a.type[1] \in CRED_VARIANTS
    /\ (a.type[1] \in {gke, eks} => a.path # None)
    /\ (a.type[1] = eks => a.eks_cluster # None)

TryAgain(result, here, next) == IF result = "ok" THEN next ELSE here

TrySwallowJson(result, here, next) ==
    IF result \in {"ok", "JsonError"} THEN next ELSE "exit"

\* The ? operator: where main goes after a step that returned result.
Try(result, here, next) == IF result = "ok" THEN next ELSE "exit"

Finish(result, here, next) ==
    /\ pc' = Try(result, here, next)
    /\ outcome' = IF result = "ok" THEN outcome ELSE result
    /\ failedAt' = IF result = "ok" THEN failedAt ELSE here

\* File::create / stdout of get_writer.
get_writer(path, result) ==
    IF path = "-" THEN "stdout"
    ELSE IF result = "ok" THEN "created" ELSE "untouched"

Init ==
    /\ args \in [type : Opt(TypeTokens), path : Opt(Paths), eks_cluster : Opt(Clusters)]
    /\ pc = "start"
    /\ outcome = "running"
    /\ failedAt = "none"
    /\ credential_type = "none"
    /\ output = "unread"
    /\ events = <<>>
    /\ vaultRequests = <<>>
    /\ sdkCalls = <<>>
    /\ presignCalls = <<>>
    /\ eksArgs = None
    /\ warnings = <<>>
    /\ clock = 0
    /\ nowReads = <<>>
    /\ lease = None
    /\ aws_credentials = None
    /\ token = None
    /\ wire = None
    /\ sdkToken = None
    /\ gcp_access_token = None
    /\ creds = None
    /\ sink = "untouched"
    /\ sinkContent = None

\* parser.get_matches()
ParseArgs ==
    /\ pc = "start"
    /\ Finish(IF ClapAccepts(args) THEN "ok" ELSE "ClapError", "parse_args", "dispatch")
    /\ UNCHANGED <<args, credential_type, output, events, vaultRequests, sdkCalls,
                   presignCalls, eksArgs, warnings, clock, nowReads, lease,
                   aws_credentials, token, wire, sdkToken, gcp_access_token, creds,
                   sink, sinkContent>>

\* CredentialType::from_str(..).expect(..), the output argument, and the match.
Dispatch ==
    /\ pc = "dispatch"
    /\ LET ct == from_str(args.type[1])
       IN  /\ credential_type' = IF ct = "InvalidCredentialType" THEN "none" ELSE ct
           /\ Finish(IF ct = "InvalidCredentialType" THEN "Panic" ELSE "ok", "dispatch",
                     CASE ct = "Gke" -> "gke_client"
                       [] ct = "Eks" -> "eks_client"
                       [] ct = "Gcp" -> "gcp_init"
                       [] OTHER -> "exit")
    /\ \E o \in Outputs : output' = o
    /\ UNCHANGED <<args, events, vaultRequests, sdkCalls, presignCalls, eksArgs,
                   warnings, clock, nowReads, lease, aws_credentials, token, wire,
                   sdkToken, gcp_access_token, creds, sink, sinkContent>>

\* get_vault_client
GetVaultClient ==
    /\ pc \in {"gke_client", "eks_client"}
    /\ \E result \in {"ok", "IoError", "Utf8Error", "VaultError"} :
          Finish(result, pc, IF pc = "gke_client" THEN "gke_read" ELSE "eks_read")
    /\ UNCHANGED <<args, credential_type, output, events, vaultRequests, sdkCalls,
                   presignCalls, eksArgs, warnings, clock, nowReads, lease,
                   aws_credentials, token, wire, sdkToken, gcp_access_token, creds,
                   sink, sinkContent>>

\* gcp::read_gcp_access_token: client.get(path), then response.data()
ReadGcpAccessToken ==
    /\ pc = "gke_read"
    /\ vaultRequests' = Append(vaultRequests, [op |-> "get", path |-> args.path[1]])
    /\ \/ /\ Finish("VaultError", "gke_read", "serialize")
          /\ events' = Append(events, "read")
          /\ UNCHANGED <<wire, gcp_access_token>>
       \/ \E response \in WireEpochs :
             LET r == timestamp_to_iso(response)
             IN  /\ wire' = Some(response)
                 /\ events' = events \o <<"read", "mint">>
                 /\ Finish(CASE r.status = "ok" -> "ok"
                             [] r.status = "decode_error" -> "VaultError"
                             [] r.status = "panic" -> "Panic",
                           "gke_read", "serialize")
                 /\ gcp_access_token' =
                       IF r.status = "ok"
                       THEN Some([token |-> "ya29", expiry |-> r.expiry[1],
                                  token_ttl |-> 3599])
                       ELSE None
    /\ UNCHANGED <<args, credential_type, output, sdkCalls, presignCalls, eksArgs,
                   warnings, clock, nowReads, lease, aws_credentials, token, sdkToken,
                   creds, sink, sinkContent>>

\* aws::read_aws_credentials
ReadAwsCredentials ==
    /\ pc = "eks_read"
    /\ IF ~PathValid(args.path[1])
       THEN /\ Finish("InvalidVaultPath", "eks_read", "eks_mint")
            /\ events' = Append(events, "validate")
            /\ UNCHANGED <<vaultRequests, lease, aws_credentials, clock, nowReads>>
       ELSE /\ events' = events \o <<"validate", "read">>
            /\ vaultRequests' = Append(vaultRequests,
                  [op |-> "generate_credentials", mount |-> mount_point(args.path[1]),
                   role |-> role(args.path[1])])
            /\ \/ \E error \in {"VaultError", "JsonError"} :
                     /\ Finish(error, "eks_read", "eks_mint")
                     /\ UNCHANGED <<lease, aws_credentials, clock, nowReads>>
               \/ \E response \in Leases, elapsed \in 0..MaxElapsed :
                     LET e == AwsExpiry(response.security_token,
                                        response.lease_duration, clock + elapsed)
                     IN  /\ response.security_token = None => elapsed = 0
                         /\ clock' = clock + elapsed
                         /\ nowReads' = IF response.security_token = None THEN nowReads
                                        ELSE Append(nowReads, clock')
                         /\ lease' = Some(response)
                         /\ aws_credentials' =
                               IF e.status = "panic" THEN None
                               ELSE Some([key |-> response.access_key,
                                          secret |-> response.secret_key,
                                          token |-> response.security_token,
                                          expires_at |-> e.expiry])
                         /\ Finish(IF e.status = "panic" THEN "Panic" ELSE "ok",
                                   "eks_read", "eks_mint")
    /\ UNCHANGED <<args, credential_type, output, sdkCalls, presignCalls, eksArgs,
                   warnings, token, wire, sdkToken, gcp_access_token, creds, sink,
                   sinkContent>>

\* aws::get_eks_token, with generate_presigned_url
GetEksToken ==
    /\ pc = "eks_mint"
    /\ events' = Append(events, "mint")
    /\ \E region \in Opt(RegionNames), expires_in \in Opt(ExpiryStrings) :
          LET inputs == PresignInputs(args.eks_cluster[1], region, expires_in)
          IN  /\ eksArgs' = Some([region |-> region, expires_in |-> expires_in])
              /\ IF ~inputs.ok
                 THEN /\ Finish(inputs.error, "eks_mint", "serialize")
                      /\ UNCHANGED <<warnings, presignCalls, token>>
                 ELSE /\ warnings' = warnings \o ExpiryWarnings(inputs.expiry)
                      /\ \E url \in Urls :
                            /\ presignCalls' = Append(presignCalls,
                                  [credentials |-> aws_credentials[1],
                                   region |-> inputs.region, headers |-> inputs.headers,
                                   expiry |-> inputs.expiry, url |-> url])
                            /\ token' = Some(EksCredential(url))
                      /\ Finish("ok", "eks_mint", "serialize")
    /\ UNCHANGED <<args, credential_type, output, vaultRequests, sdkCalls, clock,
                   nowReads, lease, aws_credentials, wire, sdkToken, gcp_access_token,
                   creds, sink, sinkContent>>

\* gcp_auth::init()
GcpAuthInit ==
    /\ pc = "gcp_init"
    /\ sdkCalls' = Append(sdkCalls, "init")
    /\ \E result \in {"ok", "GCPAuthError"} : Finish(result, "gcp_init", "gcp_token")
    /\ UNCHANGED <<args, credential_type, output, events, vaultRequests, presignCalls,
                   eksArgs, warnings, clock, nowReads, lease, aws_credentials, token,
                   wire, sdkToken, gcp_access_token, creds, sink, sinkContent>>

\* auth.get_token(scopes)
GcpGetToken ==
    /\ pc = "gcp_token"
    /\ sdkCalls' = Append(sdkCalls, "get_token")
    /\ \/ Finish("GCPAuthError", "gcp_token", "gcp_norm") /\ UNCHANGED sdkToken
       \/ \E response \in [token : {"ya29"},
                           expires_at : Opt({clock + d : d \in ExpiryOffsets})] :
             Finish("ok", "gcp_token", "gcp_norm") /\ sdkToken' = Some(response)
    /\ UNCHANGED <<args, credential_type, output, events, vaultRequests, presignCalls,
                   eksArgs, warnings, clock, nowReads, lease, aws_credentials, token,
                   wire, gcp_access_token, creds, sink, sinkContent>>

\* GcpAccessToken::from_gcp_auth(&token): Utc::now() is read for the default
\* expiry only when the token carries none, and once more for token_ttl.
FromGcpAuth ==
    /\ pc = "gcp_norm"
    /\ events' = Append(events, "mint")
    /\ \E e1 \in 0..MaxElapsed, e2 \in 0..MaxElapsed :
          LET now1 == clock + e1
              now2 == now1 + e2
          IN  /\ sdkToken[1].expires_at # None => e1 = 0
              /\ clock' = now2
              /\ nowReads' = IF sdkToken[1].expires_at # None THEN Append(nowReads, now2)
                             ELSE nowReads \o <<now1, now2>>
              /\ gcp_access_token' = Some(from_gcp_auth(sdkToken[1], now1, now2))
    /\ Finish("ok", "gcp_norm", "serialize")
    /\ UNCHANGED <<args, credential_type, output, vaultRequests, sdkCalls,
                   presignCalls, eksArgs, warnings, lease, aws_credentials, token,
                   wire, sdkToken, creds, sink, sinkContent>>

\* serde_json::to_string_pretty of the selected entity
Serialize ==
    /\ pc = "serialize"
    /\ events' = Append(events, "serialize")
    /\ \E result \in {"ok", "JsonError"} :
          /\ creds' = IF result # "ok" THEN None
                      ELSE IF credential_type = "Eks" THEN Some(SerializeEks(token[1]))
                      ELSE Some(SerializeGcp(gcp_access_token[1]))
          /\ Finish(result, "serialize", "writer")
    /\ UNCHANGED <<args, credential_type, output, vaultRequests, sdkCalls,
                   presignCalls, eksArgs, warnings, clock, nowReads, lease,
                   aws_credentials, token, wire, sdkToken, gcp_access_token, sink,
                   sinkContent>>

\* get_writer(output)
GetWriter ==
    /\ pc = "writer"
    /\ \E result \in {"ok", "IoError"} :
          /\ output = "-" => result = "ok"
          /\ sink' = get_writer(output, result)
          /\ Finish(result, "writer", "write")
    /\ UNCHANGED <<args, credential_type, output, events, vaultRequests, sdkCalls,
                   presignCalls, eksArgs, warnings, clock, nowReads, lease,
                   aws_credentials, token, wire, sdkToken, gcp_access_token, creds,
                   sinkContent>>

\* write(output, &creds): write! is write_all, which stops at the first error.
\* A file is written through unbuffered: the write succeeds with the whole
\* document in the file, or fails with nothing or a proper prefix of it there.
\* Stdout is line buffered: the write puts the document up to its last newline
\* on the descriptor and keeps the rest (the closing brace; to_string_pretty
\* ends without a newline) in the buffer, or fails with nothing or a prefix
\* out; a closed descriptor (EBADF) counts as success with nothing written.
\* A prefix is the document paired with the mark "prefix".
Write ==
    /\ pc = "write"
    /\ events' = Append(events, "write")
    /\ \E result \in {"ok", "IoError"}, written \in {"all", "prefix", "nothing"} :
          /\ IF sink = "stdout"
             THEN result = "ok" => written # "all"
             ELSE result = "ok" <=> written = "all"
          /\ pc' = IF result = "ok" /\ sink = "stdout" THEN "return" ELSE "exit"
          /\ outcome' = result
          /\ failedAt' = IF result = "ok" THEN failedAt ELSE "write"
          /\ sinkContent' = IF written = "all" THEN creds
                            ELSE IF written = "prefix" THEN <<creds[1], "prefix">>
                            ELSE None
    /\ UNCHANGED <<args, credential_type, output, vaultRequests, sdkCalls,
                   presignCalls, eksArgs, warnings, clock, nowReads, lease,
                   aws_credentials, token, wire, sdkToken, gcp_access_token, creds,
                   sink>>

\* main returns Ok(()) after a write to stdout: the runtime flushes the buffered
\* rest of the document and drops any error, so the exit status is 0 whether
\* or not the rest reached the descriptor.
Return ==
    /\ pc = "return"
    /\ pc' = "exit"
    /\ \E flushed \in BOOLEAN :
          sinkContent' = IF flushed /\ sinkContent # None THEN creds ELSE sinkContent
    /\ UNCHANGED <<args, outcome, failedAt, credential_type, output, events,
                   vaultRequests, sdkCalls, presignCalls, eksArgs, warnings, clock,
                   nowReads, lease, aws_credentials, token, wire, sdkToken,
                   gcp_access_token, creds, sink>>

Next ==
    \/ ParseArgs
    \/ Dispatch
    \/ GetVaultClient
    \/ ReadGcpAccessToken
    \/ ReadAwsCredentials
    \/ GetEksToken
    \/ GcpAuthInit
    \/ GcpGetToken
    \/ FromGcpAuth
    \/ Serialize
    \/ GetWriter
    \/ Write
    \/ Return

Spec == Init /\ [][Next]_vars

\* ------------------------------------------------------------- properties
IsPrefix(a, b) == Len(a) <= Len(b) /\ a = SubSeq(b, 1, Len(a))

Failed == outcome \notin {"running", "ok"}

\* C1: in an EKS run, path validation succeeds exactly when the path splits on
\* '/' into 3 non-empty segments with segment 1 equal to "creds"; on success
\* segment 0 is the mount point and segment 2 the role of the request, and on
\* failure the run ends with InvalidVaultPath.
C1_PathValidation ==
    (credential_type = "Eks" /\ Len(events) > 0) =>
        LET parts == split(args.path[1])
            wellFormed == /\ Len(parts) = 3
                          /\ \A i \in 1..3 : parts[i] # <<>>
                          /\ parts[2] = creds_literal
        IN  IF wellFormed
            THEN /\ Len(vaultRequests) = 1
                 /\ vaultRequests[1].mount = parts[1]
                 /\ vaultRequests[1].role = parts[3]
            ELSE /\ vaultRequests = <<>>
                 /\ outcome = "InvalidVaultPath"

\* The steps of main that come before the output is opened.
StepsBeforeWrite == {"parse_args", "dispatch", "gke_client", "eks_client", "gke_read",
                     "eks_read", "eks_mint", "gcp_init", "gcp_token", "gcp_norm",
                     "serialize"}

\* C2: when a step before the write fails, the run has ended with that error
\* and the output sink was never opened, created, truncated or written.
C2_NoOutputOnFailure ==
    failedAt \in StepsBeforeWrite =>
        /\ pc = "exit"
        /\ Failed
        /\ sink = "untouched"
        /\ sinkContent = None

\* C2 witness: serialization failed in a run that writes to a file.
C2_Witness ==
    /\ failedAt = "serialize"
    /\ outcome = "JsonError"
    /\ output = "out.json"
    /\ sink = "untouched"

\* C3: in a GKE or EKS run the steps are a prefix of validate, read, mint,
\* serialize, write: the path passes the validator before any request for it is
\* sent to the secret backend.
C3_ValidateBeforeReadAll ==
    credential_type \in {"Gke", "Eks"} =>
        IsPrefix(events, <<"validate", "read", "mint", "serialize", "write">>)

\* C4: a GKE or EKS run sends at most one request to the secret backend and
\* never calls the SDK auth flow; a GCP run never contacts the secret backend
\* and calls init and get_token at most once each; a failed run has ended.
C4_OneBackend ==
    /\ credential_type \in {"Gke", "Eks"} =>
          Len(vaultRequests) <= 1 /\ sdkCalls = <<>>
    /\ credential_type = "Gcp" =>
          vaultRequests = <<>> /\ IsPrefix(sdkCalls, <<"init", "get_token">>)
    /\ credential_type = "none" => vaultRequests = <<>> /\ sdkCalls = <<>>
    /\ Failed => pc = "exit"

\* C4 witness: the one request of an EKS run failed and the run has ended.
C4_Witness ==
    /\ credential_type = "Eks"
    /\ failedAt = "eks_read"
    /\ outcome = "VaultError"
    /\ Len(vaultRequests) = 1
    /\ pc = "exit"

\* C5: every AWS lease the backend returned gives credentials; they carry an
\* expiry exactly when the lease carries a security_token, and then it is the
\* instant now + lease_duration seconds.
C5_AwsExpiry ==
    lease # None =>
        /\ failedAt # "eks_read"
        /\ aws_credentials # None
        /\ LET c == aws_credentials[1]
               l == lease[1]
               now == nowReads[1]
           IN  /\ (c.expires_at # None) <=> (l.security_token # None)
               /\ l.security_token # None =>
                     c.expires_at =
                        Some([secs |-> [neg |-> FALSE,
                                        mag |-> LimbAdd(ToLimbs(StartEpoch + now \div TicksPerSec),
                                                        l.lease_duration, 0)],
                              ticks |-> now % TicksPerSec])
               /\ l.security_token = None => c.expires_at = None

\* The bytes a string of unpadded base64 characters of `alphabet` stands for.
RECURSIVE Decode(_, _)
Decode(chars, alphabet) ==
    LET v(i) == IndexIn(chars[i], alphabet) - 1
    IN  IF Len(chars) <= 1 THEN <<>>
        ELSE IF Len(chars) = 2 THEN <<v(1) * 4 + v(2) \div 16>>
        ELSE IF Len(chars) = 3
             THEN <<v(1) * 4 + v(2) \div 16, (v(2) % 16) * 16 + v(3) \div 4>>
        ELSE <<v(1) * 4 + v(2) \div 16, (v(2) % 16) * 16 + v(3) \div 4,
               (v(3) % 4) * 64 + v(4)>> \o Decode(SubSeq(chars, 5, Len(chars)), alphabet)

\* C6: a minted EksCredential has the fixed kind and apiVersion, an empty spec,
\* and a token that is "k8s-aws-v1." followed by URL-safe base64 characters,
\* without padding, that decode to the URL the presigning primitive returned.
C6_EksToken ==
    token # None =>
        LET t == token[1].status.token
            n == Len(TokenPrefix)
            rest == SubSeq(t, n + 1, Len(t))
            url == presignCalls[Len(presignCalls)].url
        IN  /\ token[1].kind = "ExecCredential"
            /\ token[1].api_version = "client.authentication.k8s.io/v1alpha1"
            /\ token[1].spec = {}
            /\ Len(t) >= n
            /\ SubSeq(t, 1, n) = <<"k","8","s","-","a","w","s","-","v","1",".">>
            /\ \A i \in 1..Len(rest) : rest[i] # "=" /\ rest[i] \notin {"+", "/"}
            /\ \A i \in 1..Len(rest) : IndexIn(rest[i], UrlSafeAlphabet) > 0
            /\ Len(rest) % 4 # 1
            /\ Decode(rest, UrlSafeAlphabet) = url

\* C6 witness: a token for a URL whose length is no multiple of 3, where a
\* padded encoding would end in "=".
C6_Witness ==
    /\ token # None
    /\ Len(presignCalls) = 1
    /\ presignCalls[1].url = <<104, 126>>
    /\ token[1].status.token = TokenPrefix \o <<"a", "H", "4">>

\* The day number, counted from 1970-01-01, of a civil date.
DaysFromCivil(y, m, d) ==
    LET yy == IF m <= 2 THEN y - 1 ELSE y
        era == yy \div 400
        yoe == yy - era * 400
        doy == (153 * (IF m > 2 THEN m - 3 ELSE m + 9) + 2) \div 5 + d - 1
        doe == yoe * 365 + yoe \div 4 - yoe \div 100 + doy
    IN  era * 146097 + doe - 719468

\* C7: every epoch in [0, i64::MAX] the backend delivers, signed or unsigned,
\* is deserialized and gives the expiry that renders it; every unsigned value
\* above i64::MAX is rejected with a decode error.
C7_EpochToExpiry ==
    wire # None =>
        LET w == wire[1]
        IN  IF ~LexLe(w.mag, I64MaxLimbs)
            THEN failedAt = "gke_read" /\ outcome = "VaultError"
            ELSE ~w.neg =>
                 /\ failedAt # "gke_read"
                 /\ gcp_access_token # None
                 /\ LET e == gcp_access_token[1].expiry
                        dm == DivMod86400(w.mag, 0, 0)
                    IN  /\ DaysFromCivil(e.year, e.month, e.day) = dm.q
                        /\ e.hour * 3600 + e.minute * 60 + e.second = dm.r
                        /\ e.offset = "Z"

\* C8: from_gcp_auth uses the expiry the token carries, or now + 50 minutes;
\* token_ttl is the whole seconds of |expiry - now|, and 3000 for the default.
C8_SdkTtl ==
    (credential_type = "Gcp" /\ gcp_access_token # None) =>
        LET t == sdkToken[1]
            g == gcp_access_token[1]
            now == nowReads[1]
        IN  IF t.expires_at = None
            THEN /\ g.expiry = Rfc3339At(now + DefaultExpiryMinutes * 60 * TicksPerSec)
                 /\ g.token_ttl = DefaultExpiryMinutes * 60
            ELSE /\ g.expiry = Rfc3339At(t.expires_at[1])
                 /\ g.token_ttl = Abs(t.expires_at[1] - now) \div TicksPerSec
                 /\ g.token_ttl >= 0

\* C9: with a region that is absent or known, every expiry string that parses
\* as an unsigned integer gives a token: the presigning primitive is called
\* once with that duration, the 15-minute warning is emitted, and the
\* 60-second warning exactly when the duration is below 60 seconds.
C9_ExpiryAdvisory ==
    eksArgs # None =>
        LET a == eksArgs[1]
            parsed == ParseU64(a.expires_in[1])
        IN  (a.expires_in # None /\ parsed.ok) =>
            /\ failedAt = "eks_mint" => outcome = "InvalidAwsRegion"
            /\ (a.region = None \/ a.region[1] \in KnownRegions) =>
                  /\ failedAt # "eks_mint"
                  /\ token # None
                  /\ Len(presignCalls) = 1
                  /\ presignCalls[1].expiry = Some(parsed.secs)
                  /\ warnings =
                        IF Len(parsed.secs) = 1 \/ (Len(parsed.secs) = 2 /\ parsed.secs[1] < 6)
                        THEN <<WARN_15_MINUTES, WARN_60_SECONDS>>
                        ELSE <<WARN_15_MINUTES>>

\* C9 witness: a token was minted with an expiry of 0 seconds, with both warnings.
C9_Witness ==
    /\ eksArgs # None
    /\ eksArgs[1].expires_in = Some(<<"0">>)
    /\ token # None
    /\ presignCalls[1].expiry = Some(<<0>>)
    /\ warnings = <<WARN_15_MINUTES, WARN_60_SECONDS>>

\* C10: once the command line is parsed, a type token whose lower-casing is
\* gke, eks or gcp has selected that backend (the other required arguments
\* being given), and any other token has ended the run with a validation
\* error and no backend selected.
C10_TypeParsing ==
    (pc \notin {"start", "dispatch"} /\ args.type # None
        /\ args.path # None /\ args.eks_cluster # None) =>
        LET l == to_lowercase(args.type[1])
        IN  IF l = <<"g","k","e">> THEN credential_type = "Gke"
            ELSE IF l = <<"e","k","s">> THEN credential_type = "Eks"
            ELSE IF l = <<"g","c","p">> THEN credential_type = "Gcp"
            ELSE /\ credential_type = "none"
                 /\ outcome \in {"InvalidCredentialType", "ClapError"}
                 /\ pc = "exit"

\* C11: in get_eks_token the region is parsed before the expiry and both before
\* presigning: a region that is given and unknown ends the run with
\* InvalidAwsRegion whatever the expiry string is; otherwise an expiry string
\* that is given and does not parse as an unsigned 64-bit integer ends it with
\* ParseIntError; in both cases the presigning primitive is never called and
\* no token exists; otherwise the primitive is called once and a token minted.
C11_ParseOrder ==
    eksArgs # None =>
        LET a == eksArgs[1]
            regionBad == a.region # None /\ a.region[1] \notin KnownRegions
            expiryBad == a.expires_in # None /\ ~ParseU64(a.expires_in[1]).ok
        IN  /\ regionBad =>
                  /\ failedAt = "eks_mint" /\ outcome = "InvalidAwsRegion"
                  /\ pc = "exit" /\ presignCalls = <<>> /\ token = None
            /\ (~regionBad /\ expiryBad) =>
                  /\ failedAt = "eks_mint" /\ outcome = "ParseIntError"
                  /\ pc = "exit" /\ presignCalls = <<>> /\ token = None
            /\ (~regionBad /\ ~expiryBad) =>
                  /\ failedAt # "eks_mint"
                  /\ Len(presignCalls) = 1
                  /\ presignCalls[1].region = a.region
                  /\ token # None

\* C11 witness: an unknown region together with an expiry that is no number
\* ended the run with InvalidAwsRegion, before any presigning.
C11_Witness ==
    /\ eksArgs # None
    /\ eksArgs[1].region = Some("mars-1")
    /\ eksArgs[1].expires_in = Some(<<"a">>)
    /\ outcome = "InvalidAwsRegion"
    /\ presignCalls = <<>>
    /\ token = None

====
